---- MODULE Spec2Model ----
(***************************************************************************)
(* Model of the chatbot API of app/main.py: the POST /chat endpoint, its   *)
(* keyword helpers (process_message, classify_intent,                      *)
(* should_transfer_to_human, generate_suggestions) and the background      *)
(* conversation log.                                                       *)
(*                                                                         *)
(* Messages are TLA+ strings, i.e. sequences of characters, so that        *)
(* Python's `word in text` is substring search and len() is the number of  *)
(* characters.  Confidences are floats with two decimals in the source;    *)
(* they are kept here as integers in hundredths (0.95 is 95), which keeps  *)
(* every comparison of the source (> 0.8, < 0.7) exact.                    *)
(***************************************************************************)
EXTENDS Integers, Sequences, FiniteSets, TLC

VARIABLES request, pc, intent, response, background_tasks, sent, log, probe

vars == <<request, pc, intent, response, background_tasks, sent, log, probe>>

(***************************************************************************)
(* Bounds of the model.                                                    *)
(***************************************************************************)
\* a generated message is the concatenation of at most MaxFrags fragments
MaxFrags == 2
\* number of /chat requests in flight in the concurrent specification
NumRequests == 2

(***************************************************************************)
(* Program constants.                                                      *)
(***************************************************************************)
\* ChatMessage.message: Field(..., min_length=1, max_length=1000)
MIN_LENGTH == 1
MAX_LENGTH == 1000

(***************************************************************************)
(* The strings of the module are ASCII.  In the trigger words and the      *)
(* messages, where every character counts, each accented letter of the     *)
(* source is one stand-in character that occurs nowhere else, so lengths   *)
(* and substrings are those of the source.  The replies and suggestions,   *)
(* which are only passed on and compared, are written without diacritics.  *)
(***************************************************************************)
a_acute == "{"
a_tilde == "~"
c_cedilla == "$"
A_ACUTE == "}"
A_TILDE == "^"
C_CEDILLA == "&"

(***************************************************************************)
(* str.lower() and the `in` operator on strings.                           *)
(***************************************************************************)
\* the upper-case letters that occur in the generated messages, and what
\* str.lower() maps each of them to; every other character is unchanged
UpperLetters == "ABCDEFGHIJKLMNOPQRSTUVWXYZ" \o A_ACUTE \o A_TILDE \o C_CEDILLA
LowerLetters == "abcdefghijklmnopqrstuvwxyz" \o a_acute \o a_tilde \o c_cedilla

ToLower ==
  [c \in {SubSeq(UpperLetters, i, i) : i \in 1..Len(UpperLetters)} |->
     LET i == CHOOSE j \in 1..Len(UpperLetters) : SubSeq(UpperLetters, j, j) = c
     IN  SubSeq(LowerLetters, i, i)]

lower_char(c) == IF c \in DOMAIN ToLower THEN ToLower[c] ELSE c

\* str.lower(): every character mapped, in place (the string is split in
\* halves to keep the recursion shallow on long messages)
RECURSIVE lower(_)
lower(s) ==
  IF Len(s) = 0 THEN ""
  ELSE IF Len(s) = 1 THEN lower_char(s)
  ELSE LET h == Len(s) \div 2
       IN  lower(SubSeq(s, 1, h)) \o lower(SubSeq(s, h + 1, Len(s)))

\* Python: word in text
Contains(text, word) ==
  \E i \in 1..(Len(text) - Len(word) + 1) : SubSeq(text, i, i + Len(word) - 1) = word

\* Python: any(word in text for word in words)
any_in(text, words) == \E k \in DOMAIN words : Contains(text, words[k])

(***************************************************************************)
(* process_message: the reply strings and the trigger lists.  The replies  *)
(* (and the suggestions below) are the source's texts with each pictograph *)
(* written as its Unicode name in brackets, since the module's character   *)
(* set cannot hold it.                                                     *)
(***************************************************************************)
REPLY_GREETING == "Ola! [waving hand sign] Sou o assistente virtual da empresa. Como posso ajuda-lo hoje? Posso auxiliar com informacoes sobre pedidos, produtos, suporte tecnico e muito mais!"
REPLY_ORDER == "[package] Para consultar seu pedido, preciso do numero. Pode me informar o numero do pedido? Exemplo: #12345. Com essa informacao, posso verificar o status, rastreamento e previsao de entrega!"
REPLY_PRODUCT == "[shopping bags] Temos diversos produtos disponiveis! Pode me dizer qual produto especifico voce tem interesse? Posso fornecer informacoes sobre caracteristicas, precos, disponibilidade e formas de pagamento."
REPLY_SUPPORT == "[hammer and wrench] Sinto muito pelo inconveniente! Vou ajudar voce a resolver isso. Pode me descrever o problema com mais detalhes? Qual produto esta apresentando problema e o que exatamente esta acontecendo?"
REPLY_BILLING == "[money bag] Questoes de cobranca sao importantes! Posso ajudar com duvidas sobre sua fatura, formas de pagamento, vencimentos e negociacao. Qual e sua duvida especifica sobre cobranca?"
REPLY_CANCEL == "[cross mark] Entendi que voce deseja cancelar algo. Para processar seu cancelamento de forma adequada, preciso de mais informacoes. O que voce gostaria de cancelar? Pedido, assinatura ou outro servico?"
REPLY_THANKS == "[smiling face with smiling eyes] Fico feliz em ter ajudado! Se precisar de mais alguma coisa, estarei sempre aqui. Tenha um otimo dia! [white medium star]"
REPLY_DEFAULT == "[thinking face] Interessante! Estou processando sua solicitacao. Embora eu possa ajudar com diversas questoes, para esta situacao especifica, que tal falar com um de nossos especialistas? Eles terao todo prazer em ajudar voce!"

PM_GREETING == <<"ol" \o a_acute, "oi", "bom dia", "boa tarde">>
PM_ORDER == <<"pedido", "status", "encomenda">>
PM_PRODUCT == <<"produto", "pre" \o c_cedilla \o "o", "informa" \o c_cedilla \o a_tilde \o "o">>
PM_SUPPORT == <<"problema", "n" \o a_tilde \o "o funciona", "defeito", "suporte">>
PM_BILLING == <<"cobran" \o c_cedilla \o "a", "fatura", "pagamento">>
PM_CANCEL == <<"cancelar", "cancelamento">>
PM_THANKS == <<"obrigado", "valeu", "muito bom">>

\* process_message with the order bucket tested before the greeting bucket
process_message_order_first(message) ==
  LET user_msg == lower(message.message) IN
  IF any_in(user_msg, PM_ORDER) THEN REPLY_ORDER
  ELSE IF any_in(user_msg, PM_GREETING) THEN REPLY_GREETING
  ELSE IF any_in(user_msg, PM_PRODUCT) THEN REPLY_PRODUCT
  ELSE IF any_in(user_msg, PM_SUPPORT) THEN REPLY_SUPPORT
  ELSE IF any_in(user_msg, PM_BILLING) THEN REPLY_BILLING
  ELSE IF any_in(user_msg, PM_CANCEL) THEN REPLY_CANCEL
  ELSE IF any_in(user_msg, PM_THANKS) THEN REPLY_THANKS
  ELSE REPLY_DEFAULT

\* process_message without the call of lower()
process_message_no_lower(message) ==
  LET user_msg == message.message IN
  IF any_in(user_msg, PM_GREETING) THEN REPLY_GREETING
  ELSE IF any_in(user_msg, PM_ORDER) THEN REPLY_ORDER
  ELSE IF any_in(user_msg, PM_PRODUCT) THEN REPLY_PRODUCT
  ELSE IF any_in(user_msg, PM_SUPPORT) THEN REPLY_SUPPORT
  ELSE IF any_in(user_msg, PM_BILLING) THEN REPLY_BILLING
  ELSE IF any_in(user_msg, PM_CANCEL) THEN REPLY_CANCEL
  ELSE IF any_in(user_msg, PM_THANKS) THEN REPLY_THANKS
  ELSE REPLY_DEFAULT

process_message(message) ==
  LET user_msg == lower(message.message) IN
  IF any_in(user_msg, PM_GREETING) THEN REPLY_GREETING
  ELSE IF any_in(user_msg, PM_ORDER) THEN REPLY_ORDER
  ELSE IF any_in(user_msg, PM_PRODUCT) THEN REPLY_PRODUCT
  ELSE IF any_in(user_msg, PM_SUPPORT) THEN REPLY_SUPPORT
  ELSE IF any_in(user_msg, PM_BILLING) THEN REPLY_BILLING
  ELSE IF any_in(user_msg, PM_CANCEL) THEN REPLY_CANCEL
  ELSE IF any_in(user_msg, PM_THANKS) THEN REPLY_THANKS
  ELSE REPLY_DEFAULT

(***************************************************************************)
(* classify_intent                                                         *)
(***************************************************************************)
CI_ORDER == <<"pedido", "status", "encomenda", "tracking">>
CI_PRODUCT == <<"produto", "pre" \o c_cedilla \o "o", "informa" \o c_cedilla \o a_tilde \o "o", "detalhes">>
CI_BILLING == <<"cobran" \o c_cedilla \o "a", "fatura", "pagamento", "valor">>
\* the support list without "suporte"
CI_SUPPORT_no_suporte == <<"problema", "defeito", "n" \o a_tilde \o "o funciona">>
CI_SUPPORT == <<"problema", "defeito", "n" \o a_tilde \o "o funciona", "suporte">>
CI_COMPLAINT == <<"reclama" \o c_cedilla \o a_tilde \o "o", "insatisfeito", "ruim">>
CI_GREETING == <<"ol" \o a_acute, "oi", "bom dia", "boa tarde">>

\* classify_intent with the greeting list tested first
classify_intent_greeting_first(message) ==
  LET message_lower == lower(message) IN
  IF any_in(message_lower, CI_GREETING)
    THEN [type |-> "greeting", confidence |-> 98]
  ELSE IF any_in(message_lower, CI_ORDER)
    THEN [type |-> "order_status", confidence |-> 95]
  ELSE IF any_in(message_lower, CI_PRODUCT)
    THEN [type |-> "product_info", confidence |-> 90]
  ELSE IF any_in(message_lower, CI_BILLING)
    THEN [type |-> "billing", confidence |-> 88]
  ELSE IF any_in(message_lower, CI_SUPPORT)
    THEN [type |-> "technical_support", confidence |-> 92]
  ELSE IF any_in(message_lower, CI_COMPLAINT)
    THEN [type |-> "complaint", confidence |-> 85]
  ELSE [type |-> "general_inquiry", confidence |-> 70]

\* classify_intent with a default confidence of 0.65
classify_intent_low_default(message) ==
  LET message_lower == lower(message) IN
  IF any_in(message_lower, CI_ORDER)
    THEN [type |-> "order_status", confidence |-> 95]
  ELSE IF any_in(message_lower, CI_PRODUCT)
    THEN [type |-> "product_info", confidence |-> 90]
  ELSE IF any_in(message_lower, CI_BILLING)
    THEN [type |-> "billing", confidence |-> 88]
  ELSE IF any_in(message_lower, CI_SUPPORT)
    THEN [type |-> "technical_support", confidence |-> 92]
  ELSE IF any_in(message_lower, CI_COMPLAINT)
    THEN [type |-> "complaint", confidence |-> 85]
  ELSE IF any_in(message_lower, CI_GREETING)
    THEN [type |-> "greeting", confidence |-> 98]
  ELSE [type |-> "general_inquiry", confidence |-> 65]

classify_intent(message) ==
  LET message_lower == lower(message) IN
  IF any_in(message_lower, CI_ORDER)
    THEN [type |-> "order_status", confidence |-> 95]
  ELSE IF any_in(message_lower, CI_PRODUCT)
    THEN [type |-> "product_info", confidence |-> 90]
  ELSE IF any_in(message_lower, CI_BILLING)
    THEN [type |-> "billing", confidence |-> 88]
  ELSE IF any_in(message_lower, CI_SUPPORT)
    THEN [type |-> "technical_support", confidence |-> 92]
  ELSE IF any_in(message_lower, CI_COMPLAINT)
    THEN [type |-> "complaint", confidence |-> 85]
  ELSE IF any_in(message_lower, CI_GREETING)
    THEN [type |-> "greeting", confidence |-> 98]
  ELSE [type |-> "general_inquiry", confidence |-> 70]

(***************************************************************************)
(* should_transfer_to_human                                                *)
(***************************************************************************)
human_keywords == <<"falar com", "atendente", "pessoa", "humano", "gerente", "supervis" \o a_tilde \o "o">>

\* should_transfer_to_human with <= 0.7 as the low-confidence test
should_transfer_to_human_le(message, i) ==
  IF any_in(lower(message), human_keywords) THEN TRUE
  ELSE IF i.type = "complaint" /\ i.confidence > 80 THEN TRUE
  ELSE IF i.confidence <= 70 THEN TRUE
  ELSE FALSE

should_transfer_to_human(message, i) ==
  IF any_in(lower(message), human_keywords) THEN TRUE
  ELSE IF i.type = "complaint" /\ i.confidence > 80 THEN TRUE
  ELSE IF i.confidence < 70 THEN TRUE
  ELSE FALSE

(***************************************************************************)
(* generate_suggestions                                                    *)
(***************************************************************************)
suggestions ==
  [order_status |-> <<"[package] Consultar outro pedido",
                      "[mobile phone] Receber notificacoes por WhatsApp",
                      "[e-mail symbol] Falar com atendente">>,
   product_info |-> <<"[shopping bags] Ver produtos similares",
                      "[money bag] Consultar formas de pagamento",
                      "[telephone receiver] Falar com vendedor">>,
   technical_support |-> <<"[clipboard] Acessar tutorial",
                           "[movie camera] Ver video explicativo",
                           "[man][personal computer] Falar com tecnico">>,
   billing |-> <<"[credit card] Ver formas de pagamento",
                 "[page facing up] Segunda via da fatura",
                 "[money bag] Negociar desconto">>,
   complaint |-> <<"[memo] Abrir chamado formal",
                   "[telephone receiver] Falar com supervisor",
                   "[wrapped present] Ver compensacoes">>]

DEFAULT_SUGGESTIONS ==
  <<"[black question mark ornament] Fazer outra pergunta", "[telephone receiver] Falar com atendente", "[house building] Voltar ao inicio">>

\* generate_suggestions with an empty default list
generate_suggestions_empty_default(i, message) ==
  LET intent_type == i.type IN
  IF intent_type \in DOMAIN suggestions THEN suggestions[intent_type]
  ELSE <<>>

\* suggestions.get(intent_type, default); the message argument is not read
generate_suggestions(i, message) ==
  LET intent_type == i.type IN
  IF intent_type \in DOMAIN suggestions THEN suggestions[intent_type]
  ELSE DEFAULT_SUGGESTIONS

(***************************************************************************)
(* log_conversation: the record written to the log.  The timestamp of the  *)
(* record is not modelled.                                                 *)
(***************************************************************************)
log_conversation(message, response_text, i) ==
  [user_id |-> message.user_id,
   channel |-> message.channel,
   user_message |-> message.message,
   bot_response |-> response_text,
   intent |-> i.type,
   confidence |-> i.confidence]

(***************************************************************************)
(* The request bodies the model sends to POST /chat.                       *)
(***************************************************************************)
Words(list) == {list[k] : k \in DOMAIN list}

\* every trigger word of the source
TriggerWords ==
  Words(PM_GREETING) \cup Words(PM_ORDER) \cup Words(PM_PRODUCT)
    \cup Words(PM_SUPPORT) \cup Words(PM_BILLING) \cup Words(PM_CANCEL)
    \cup Words(PM_THANKS)
    \cup Words(CI_ORDER) \cup Words(CI_PRODUCT) \cup Words(CI_BILLING)
    \cup Words(CI_SUPPORT) \cup Words(CI_COMPLAINT) \cup Words(CI_GREETING)
    \cup Words(human_keywords)

\* every trigger word alone, and every two of them separated by a space
WordPairs == TriggerWords \cup {a \o " " \o b : a, b \in TriggerWords}

\* the pieces the other messages are built from: trigger words of every
\* list, some in upper case, words that hold or split one, and fillers
Fragments ==
  {"pedido", "status", "encomenda", "produto", "fatura", "valor",
   "problema", "suporte", "reclama" \o c_cedilla \o a_tilde \o "o", "ruim",
   "ol" \o a_acute, "oi", "bom dia", "boa tarde",
   "cancelar", "obrigado", "falar com", "atendente",
   "PEDIDO", "Ol" \o a_acute, "OI", "RECLAMA" \o C_CEDILLA \o A_TILDE \o "O",
   "ATENDENTE", "noite", "ped", "ido", "xyz123", " "}

RECURSIVE Concat(_)
Concat(fs) == IF fs = <<>> THEN "" ELSE Head(fs) \o Concat(Tail(fs))

\* every concatenation of at most n fragments (the empty message included)
MessagesOf(n) == {Concat(fs) : fs \in UNION {[1..k -> Fragments] : k \in 0..n}}

Messages == MessagesOf(MaxFrags)

RECURSIVE Fill(_)
Fill(n) ==
  IF n <= 0 THEN ""
  ELSE IF n % 2 = 0 THEN LET h == Fill(n \div 2) IN h \o h
  ELSE "x" \o Fill(n - 1)

\* messages whose length is at, just below and just above max_length
LongMessages ==
  {base \o Fill(n - Len(base)) :
     base \in {"", "pedido ", "atendente "},
     n \in {MAX_LENGTH - 1, MAX_LENGTH, MAX_LENGTH + 1}}

\* two scenarios of the documentation and an empty message
ConcMessages ==
  {"", "Qual o status do meu pedido #123?", "Quero falar com um atendente"}

SeqBodies ==
  [user_id : {"u1"}, message : Messages \cup WordPairs \cup LongMessages,
   channel : {"web"}]

ConcBodies ==
  [user_id : {"u1", "u2"}, message : ConcMessages, channel : {"web"}]

\* datetime.now().strftime('%Y%m%d_%H%M%S') at the time of the call
Clock == {"20261104_142000", "20261104_142001"}

Requests == 1..NumRequests

NoRequest == [user_id |-> "", message |-> "", channel |-> "none"]
NoIntent == [type |-> "none", confidence |-> 0]
NoResponse == [status |-> 0]

(***************************************************************************)
(* State after start-up: no request has arrived, nothing is logged.        *)
(***************************************************************************)
Init ==
  /\ request = [r \in Requests |-> NoRequest]
  /\ pc = [r \in Requests |-> "idle"]
  /\ intent = [r \in Requests |-> NoIntent]
  /\ response = [r \in Requests |-> NoResponse]
  /\ background_tasks = [r \in Requests |-> <<>>]
  /\ sent = [r \in Requests |-> NoResponse]
  /\ log = <<>>
  /\ probe = [called |-> FALSE]

(***************************************************************************)
(* POST /chat                                                              *)
(***************************************************************************)
\* a request body arrives
Receive(r, bodies) ==
  /\ pc[r] = "idle"
  /\ \E body \in bodies : request' = [request EXCEPT ![r] = body]
  /\ pc' = [pc EXCEPT ![r] = "received"]
  /\ UNCHANGED <<intent, response, background_tasks, sent, log, probe>>

\* the length check with an exclusive upper limit
valid_message_exclusive(message) ==
  /\ Len(message) >= MIN_LENGTH
  /\ Len(message) < MAX_LENGTH

\* ChatMessage.message: min_length=1, max_length=1000
valid_message(message) ==
  /\ Len(message) >= MIN_LENGTH
  /\ Len(message) <= MAX_LENGTH

\* the body is parsed into the handler's ChatMessage parameter; a body that
\* fails the field constraints is answered with 422 and chat() is not called
Validate(r) ==
  /\ pc[r] = "received"
  /\ IF valid_message(request[r].message)
       THEN /\ pc' = [pc EXCEPT ![r] = "validated"]
            /\ sent' = sent
       ELSE /\ pc' = [pc EXCEPT ![r] = "rejected"]
            /\ sent' = [sent EXCEPT ![r] = [status |-> 422]]
  /\ UNCHANGED <<request, intent, response, background_tasks, log, probe>>

\* the ChatResponse chat() builds (its timestamp field is not modelled)
ChatResponse(message, now) ==
  LET response_text == process_message(message)
      i == classify_intent(message.message)
      confidence == 95
      requires_human == should_transfer_to_human(message.message, i)
      suggested_actions == generate_suggestions(i, message.message)
      session_id == "session_" \o message.user_id \o "_" \o now
  IN  [status |-> 200,
       response |-> response_text,
       intent |-> i.type,
       confidence |-> confidence,
       requires_human |-> requires_human,
       suggested_actions |-> suggested_actions,
       session_id |-> session_id]

\* chat() awaiting log_conversation itself instead of scheduling it
Chat_awaits_log(r) ==
  /\ pc[r] = "validated"
  /\ \E now \in Clock :
       response' = [response EXCEPT ![r] = ChatResponse(request[r], now)]
  /\ intent' = [intent EXCEPT ![r] = classify_intent(request[r].message)]
  /\ log' = Append(log, log_conversation(request[r], process_message(request[r]),
                                         classify_intent(request[r].message)))
  /\ pc' = [pc EXCEPT ![r] = "returned"]
  /\ UNCHANGED <<request, background_tasks, sent, probe>>

\* the body of chat(): it has no suspension point, so it runs as one step.
\* No helper raises, so the except branch (status 500) is never taken.
Chat(r) ==
  /\ pc[r] = "validated"
  /\ \E now \in Clock :
       response' = [response EXCEPT ![r] = ChatResponse(request[r], now)]
  /\ intent' = [intent EXCEPT ![r] = classify_intent(request[r].message)]
  /\ background_tasks' =
       [background_tasks EXCEPT ![r] =
          Append(@, [message |-> request[r],
                     response |-> process_message(request[r]),
                     intent |-> classify_intent(request[r].message)])]
  /\ pc' = [pc EXCEPT ![r] = "returned"]
  /\ UNCHANGED <<request, sent, log, probe>>

\* the returned ChatResponse is sent to the caller
SendResponse(r) ==
  /\ pc[r] = "returned"
  /\ sent' = [sent EXCEPT ![r] = response[r]]
  /\ pc' = [pc EXCEPT ![r] = "responded"]
  /\ UNCHANGED <<request, intent, response, background_tasks, log, probe>>

\* the tasks given to background_tasks.add_task run once the response is sent
RunBackground(r) ==
  /\ pc[r] = "responded"
  /\ background_tasks[r] # <<>>
  /\ LET task == Head(background_tasks[r]) IN
       log' = Append(log, log_conversation(task.message, task.response, task.intent))
  /\ background_tasks' = [background_tasks EXCEPT ![r] = Tail(@)]
  /\ pc' = [pc EXCEPT ![r] = "logged"]
  /\ UNCHANGED <<request, intent, response, sent, probe>>

\* the task raises (or the process ends) before anything is written
BackgroundFails(r) ==
  /\ pc[r] = "responded"
  /\ background_tasks[r] # <<>>
  /\ background_tasks' = [background_tasks EXCEPT ![r] = Tail(@)]
  /\ pc' = [pc EXCEPT ![r] = "dropped"]
  /\ UNCHANGED <<request, intent, response, sent, log, probe>>

(***************************************************************************)
(* A direct call of should_transfer_to_human with an arbitrary intent.     *)
(***************************************************************************)
ProbeTopics ==
  {"order_status", "product_info", "billing", "technical_support",
   "complaint", "greeting", "general_inquiry"}

ProbeConfidences == {0, 50, 69, 70, 71, 79, 80, 81, 85, 88, 90, 92, 95, 98, 100}

ProbeMessages == MessagesOf(MaxFrags - 1) \cup TriggerWords

CallShouldTransfer ==
  /\ ~probe.called
  /\ \E m \in ProbeMessages, t \in ProbeTopics, c \in ProbeConfidences :
       LET i == [type |-> t, confidence |-> c] IN
       probe' = [called |-> TRUE, message |-> m, intent |-> i,
                 result |-> should_transfer_to_human(m, i)]
  /\ UNCHANGED <<request, pc, intent, response, background_tasks, sent, log>>

(***************************************************************************)
(* Specifications.                                                         *)
(***************************************************************************)
\* one request at a time, over every generated message
Next ==
  \/ Receive(1, SeqBodies)
  \/ Validate(1)
  \/ Chat(1)
  \/ SendResponse(1)
  \/ RunBackground(1)
  \/ BackgroundFails(1)

Spec == Init /\ [][Next]_vars

\* NumRequests requests, interleaved
NextConc ==
  \E r \in Requests :
    \/ Receive(r, ConcBodies)
    \/ Validate(r)
    \/ Chat(r)
    \/ SendResponse(r)
    \/ RunBackground(r)
    \/ BackgroundFails(r)

SpecConc == Init /\ [][NextConc]_vars

\* direct calls of should_transfer_to_human
NextProbe == CallShouldTransfer

SpecProbe == Init /\ [][NextProbe]_vars

(***************************************************************************)
(* Properties.                                                             *)
(***************************************************************************)
\* chat() has run for request r
Handled(r) == pc[r] \in {"returned", "responded", "logged", "dropped"}

\* the result attached to the first entry of `table` (a sequence of
\* [words, result] records) that has a word contained in `text`, and
\* `default` when no entry has one
FirstMatch(text, table, default) ==
  LET hits == {k \in DOMAIN table : any_in(text, table[k].words)} IN
  IF hits = {} THEN default
  ELSE table[CHOOSE k \in hits : \A j \in hits : k <= j].result

ClassifierOrder ==
  <<[words |-> CI_ORDER, result |-> [type |-> "order_status", confidence |-> 95]],
    [words |-> CI_PRODUCT, result |-> [type |-> "product_info", confidence |-> 90]],
    [words |-> CI_BILLING, result |-> [type |-> "billing", confidence |-> 88]],
    [words |-> CI_SUPPORT, result |-> [type |-> "technical_support", confidence |-> 92]],
    [words |-> CI_COMPLAINT, result |-> [type |-> "complaint", confidence |-> 85]],
    [words |-> CI_GREETING, result |-> [type |-> "greeting", confidence |-> 98]]>>

\* C1: classify_intent lower-cases the message and takes the first trigger
\* list, in the order order_status, product_info, billing,
\* technical_support, complaint, greeting, that has a keyword contained in
\* it, with that topic's confidence; no match gives general_inquiry at 0.70;
\* a message containing "pedido", "status" or "encomenda" gives order_status
\* at 0.95.
C1_ClassifierPriority ==
  \A r \in Requests :
    Handled(r) =>
      LET m == request[r].message IN
      /\ intent[r] = FirstMatch(lower(m), ClassifierOrder,
                                [type |-> "general_inquiry", confidence |-> 70])
      /\ (Contains(m, "pedido") \/ Contains(m, "status") \/ Contains(m, "encomenda"))
           => intent[r] = [type |-> "order_status", confidence |-> 95]

\* a message with an order word and a greeting word is classified order_status
C1_Witness ==
  /\ Handled(1)
  /\ request[1].message = "oiencomenda"
  /\ intent[1] = [type |-> "order_status", confidence |-> 95]

\* C2: the confidence of the ChatResponse is the confidence of the bucket
\* the classifier matched for the request's message; "xyz123" is answered
\* with general_inquiry and 0.70.
C2_ConfidenceOfBucket ==
  \A r \in Requests :
    Handled(r) =>
      /\ response[r].confidence = intent[r].confidence
      /\ request[r].message = "xyz123" =>
           /\ response[r].intent = "general_inquiry"
           /\ response[r].confidence = 70

\* C3: should_transfer_to_human is true exactly when the lower-cased
\* message holds a human-request phrase, or topic is complaint with
\* confidence > 0.8, or confidence < 0.7 (0.70 itself does not count).
C3_HandoffRule ==
  probe.called =>
    probe.result =
      (\/ any_in(lower(probe.message), human_keywords)
       \/ (probe.intent.type = "complaint" /\ probe.intent.confidence > 80)
       \/ probe.intent.confidence < 70)

\* confidence exactly 0.70, no phrase, not a complaint: no transfer
C3_Witness ==
  /\ probe.called
  /\ probe.message = "xyz123"
  /\ probe.intent = [type |-> "general_inquiry", confidence |-> 70]
  /\ probe.result = FALSE

\* the message of request r contains a greeting word, in any case
HasGreetingWord(r) ==
  LET m == lower(request[r].message) IN
  Contains(m, "oi") \/ Contains(m, "ol" \o a_acute) \/ Contains(m, "bom dia")
    \/ Contains(m, "boa tarde")

ReplyOrder ==
  <<[words |-> PM_GREETING, result |-> REPLY_GREETING],
    [words |-> PM_ORDER, result |-> REPLY_ORDER],
    [words |-> PM_PRODUCT, result |-> REPLY_PRODUCT],
    [words |-> PM_SUPPORT, result |-> REPLY_SUPPORT],
    [words |-> PM_BILLING, result |-> REPLY_BILLING],
    [words |-> PM_CANCEL, result |-> REPLY_CANCEL],
    [words |-> PM_THANKS, result |-> REPLY_THANKS]>>

Replies ==
  {REPLY_GREETING, REPLY_ORDER, REPLY_PRODUCT, REPLY_SUPPORT, REPLY_BILLING,
   REPLY_CANCEL, REPLY_THANKS, REPLY_DEFAULT}

\* C5: process_message returns one of eight fixed replies: that of the
\* first bucket, in the order greeting, order, product, support, billing,
\* cancel, gratitude, with a keyword in the lower-cased message, and the
\* default reply when there is none.
C5_ReplyPriority ==
  \A r \in Requests :
    Handled(r) =>
      /\ response[r].response =
           FirstMatch(lower(request[r].message), ReplyOrder, REPLY_DEFAULT)
      /\ response[r].response \in Replies
      /\ Cardinality(Replies) = 8

\* the reply follows the generator's order, not the classifier's: a support
\* word and a billing word give the support reply and the billing intent
C5_Witness ==
  /\ Handled(1)
  /\ request[1].message = "faturaproblema"
  /\ response[1].response = REPLY_SUPPORT
  /\ intent[1].type = "billing"

\* C6: generate_suggestions gives exactly 3 strings: the topic's list for
\* order_status, product_info, technical_support, billing and complaint,
\* the default list for greeting and general_inquiry; so every /chat
\* response has 3 suggested actions, the first one for order_status being
\* the order suggestion.
C6_ThreeSuggestions ==
  \A r \in Requests :
    Handled(r) =>
      LET s == response[r].suggested_actions
          t == intent[r].type
      IN  /\ Len(s) = 3
          /\ \A k \in 1..3 : Len(s[k]) > 0
          /\ t \in {"order_status", "product_info", "technical_support",
                    "billing", "complaint"} => s = suggestions[t]
          /\ t \in {"greeting", "general_inquiry"} => s = DEFAULT_SUGGESTIONS
          /\ t = "order_status" => s[1] = "[package] Consultar outro pedido"

\* an unmatched message gets the three default suggestions
C6_Witness ==
  /\ Handled(1)
  /\ intent[1].type = "general_inquiry"
  /\ response[1].suggested_actions = DEFAULT_SUGGESTIONS
  /\ Len(response[1].suggested_actions) = 3

\* C7: a request whose message has length 0 or more than 1000 is rejected
\* before chat() runs: no helper result, no scheduled log, no ChatResponse;
\* a message of 1 to 1000 characters is accepted.
C7_BoundaryValidation ==
  \A r \in Requests :
    pc[r] # "idle" =>
      LET n == Len(request[r].message) IN
      IF n = 0 \/ n > 1000
        THEN /\ pc[r] \in {"received", "rejected"}
             /\ intent[r] = NoIntent
             /\ response[r] = NoResponse
             /\ background_tasks[r] = <<>>
             /\ sent[r].status # 200
             /\ \A k \in DOMAIN log : log[k].user_message # request[r].message
        ELSE pc[r] # "rejected"

\* a message of 1001 characters has been rejected
C7_Witness ==
  /\ pc[1] = "rejected"
  /\ Len(request[1].message) = 1001
  /\ sent[1].status = 422

\* C8: under any interleaving, the log write of a request happens only
\* once its response has been sent, the response is sent while the write is
\* still pending, and a sent response never changes, whether the write
\* succeeds, fails or has not run.
C8_LogAfterResponse ==
  [][\A r \in Requests :
       /\ sent[r].status = 200 => sent'[r] = sent[r]
       /\ (sent[r].status # 200 /\ sent'[r].status = 200) =>
            /\ sent'[r] = response[r]
            /\ background_tasks'[r] # <<>>
            /\ log' = log
       /\ (pc[r] # pc'[r] /\ pc'[r] \in {"logged", "dropped"}) =>
            /\ sent[r].status = 200
            /\ sent[r] = response[r]
       /\ log' # log =>
            \E q \in Requests :
              /\ sent[q].status = 200
              /\ pc'[q] = "logged" /\ pc[q] = "responded"
              /\ log' = Append(log, log_conversation(request[q], sent[q].response,
                                                     intent[q]))]_vars

\* one write succeeded and one failed, and both callers have their response
C8_Witness ==
  /\ pc[1] = "dropped"
  /\ pc[2] = "logged"
  /\ sent[1].status = 200
  /\ sent[2].status = 200
  /\ Len(log) = 1

\* C9: requires_human of a response is true exactly when the lower-cased
\* message holds a human-request phrase or the classifier's topic is
\* complaint; the classifier's confidence is never below 0.70, so the
\* < 0.7 rule never fires.
C9_HandoffInResponse ==
  \A r \in Requests :
    Handled(r) =>
      /\ response[r].requires_human =
           (\/ any_in(lower(request[r].message), human_keywords)
            \/ intent[r].type = "complaint")
      /\ intent[r].confidence >= 70

\* an order_status message without a human-request phrase: no transfer
C9_Witness ==
  /\ Handled(1)
  /\ request[1].message = "status"
  /\ intent[1].type = "order_status"
  /\ response[1].requires_human = FALSE

\* C10: when the classifier returns general_inquiry the reply is the
\* cancel, gratitude or default reply; every trigger word of the greeting,
\* order, product, support and billing replies is a classifier trigger word.
C10_GeneralInquiryReplies ==
  /\ \A r \in Requests :
       (Handled(r) /\ intent[r].type = "general_inquiry") =>
         response[r].response \in {REPLY_CANCEL, REPLY_THANKS, REPLY_DEFAULT}
  /\ Words(PM_GREETING) \cup Words(PM_ORDER) \cup Words(PM_PRODUCT)
       \cup Words(PM_SUPPORT) \cup Words(PM_BILLING)
       \subseteq Words(CI_ORDER) \cup Words(CI_PRODUCT) \cup Words(CI_BILLING)
         \cup Words(CI_SUPPORT) \cup Words(CI_COMPLAINT) \cup Words(CI_GREETING)

\* a cancel request is a general inquiry for the classifier
C10_Witness ==
  /\ Handled(1)
  /\ request[1].message = "cancelar"
  /\ intent[1].type = "general_inquiry"
  /\ response[1].response = REPLY_CANCEL

====
